---- MODULE Spec2Model ----
(***************************************************************************)
(* A model of process.py, the batch-inference driver of SubCellPortable.   *)
(*                                                                         *)
(* One run of the script is a sequential state machine: the configuration  *)
(* resolver (lines 22-44), the model provisioner (lines 54-76), the model  *)
(* loader (lines 79-83), the per-row loop over path_list.csv (lines        *)
(* 99-141), the final CSV write (lines 143-144) and the top-level handler  *)
(* (lines 145-146).  Everything outside the script (command line, files,   *)
(* HTTP responses, the inference module) is an input drawn from a small    *)
(* set, either in the initial state or by the step that consumes it.       *)
(*                                                                         *)
(* Conventions.  A Python dict is a function whose domain is its key set;  *)
(* d1 | d2 is Merge(d1, d2).  Text that the code only concatenates is a    *)
(* TLA+ string; text that the code takes apart (a manifest line, the       *)
(* channel-set) is a sequence of tokens.  Probabilities are integers (the  *)
(* float value times ten).  Class indexes are 0-based as in Python; TLA+   *)
(* sequences are 1-based, so class c of a vector p is p[c + 1].            *)
(***************************************************************************)
EXTENDS Integers, Sequences, FiniteSets, TLC

VARIABLES
    pc,              \* the statement the script is about to execute
    sys_argv,        \* the command line: flag name -> text given for it
    config_yaml,     \* config.yaml: [kind, map]
    args,            \* argparse's namespace (empty until parse_args ran)
    config,          \* the configuration dict
    weights,         \* classifier.pth / encoder.pth at the configured model path
    weights_at_start,\* the same two files as the run found them
    response,        \* status_code of the last HTTP response (0: none yet)
    requested,       \* the requests.get calls made, in order: [artifact, status]
    log,             \* the records handed to the logger: [level, msg]
    path_list,       \* path_list.csv: [exists, lines]
    pos,             \* number of manifest lines the for loop has taken
    curr_set_arr,    \* fields of the current line
    chan,            \* number of channel tests (lines 109-116) passed for the row
    cell_data,       \* images loaded for the current row
    imread_calls,    \* the imread calls made, in order: [line, field, path]
    run_model_calls, \* the inference.run_model calls made: [line, cell_data, stem]
    embedding,       \* the embedding inference.run_model returned for the row
    probabilities,   \* the probability vector it returned for the row
    prediction,      \* the values lines 122-127 derive from it
    df,              \* the result table (a sequence of rows)
    csv_writes,      \* the df.to_csv("result.csv") calls made: [pos, table]
    exc              \* the exception caught by line 145: [raised, msg, at]

vars == <<pc, sys_argv, config_yaml, args, config, weights, weights_at_start,
          response, requested, log, path_list, pos, curr_set_arr, chan,
          cell_data, imread_calls, run_model_calls, embedding, probabilities,
          prediction, df, csv_writes, exc>>

(***************************************************************************)
(* Bounds of the model.                                                    *)
(***************************************************************************)
MaxRows == 2      \* manifest lines in path_list.csv
NumClasses == 5   \* length of the probability vector in SpecRank
MaxProb == 5      \* probabilities range over 1..MaxProb tenths in SpecRank

(***************************************************************************)
(* Dicts.                                                                  *)
(***************************************************************************)
EmptyDict == [k \in {} |-> k]

\* Mutant: the earlier source wins on equal keys.
MergeKeepLeft(d1, d2) == d1 @@ d2

\* d1 | d2: the keys of both, d2's value on equal keys.
Merge(d1, d2) == d2 @@ d1

(***************************************************************************)
(* Configuration resolver, lines 22-44.                                    *)
(***************************************************************************)
OptionKeys == {"model_channels", "model_type", "update_model", "create_csv"}

RYBG == <<"r", "y", "b", "g">>

\* Lines 22-28.
Defaults ==
    [log |-> "logger", model_channels |-> RYBG,
     model_type |-> "mae_contrast_supcon_model",
     update_model |-> FALSE, create_csv |-> FALSE]

\* argparse's type=bool applies bool() to the text: only "" is false.
PyBoolOfStr(s) == s # ""

\* Python truthiness of an option value as the if statements test it.
Truthy(v) == v = TRUE

\* Lines 32-37: every flag has a default, so the namespace holds all four keys.
ParseArgs(argv) ==
    [model_channels |->
        IF "model_channels" \in DOMAIN argv THEN argv["model_channels"] ELSE RYBG,
     model_type |->
        IF "model_type" \in DOMAIN argv THEN argv["model_type"]
        ELSE "mae_contrast_supcon_model",
     update_model |->
        IF "update_model" \in DOMAIN argv THEN PyBoolOfStr(argv["update_model"])
        ELSE FALSE,
     create_csv |->
        IF "create_csv" \in DOMAIN argv THEN PyBoolOfStr(argv["create_csv"])
        ELSE FALSE]

\* The values the inputs draw the options from.
ChannelSets == {RYBG, <<"r", "b">>, <<"g", "y">>}
ModelTypes == {"mae_contrast_supcon_model", "vit_supcon_model"}
BoolTexts == {"", "False", "True"}

\* A dict that holds key k with value v, or does not hold k.
Entry(present, k, v) == IF present THEN k :> v ELSE EmptyDict

\* The command lines: each flag given with a text, or not given.
AllArgvs ==
    { Entry(pcn, "model_channels", c) @@ Entry(pt, "model_type", t)
        @@ Entry(pu, "update_model", u) @@ Entry(pcs, "create_csv", s) :
        pcn \in BOOLEAN, c \in ChannelSets, pt \in BOOLEAN, t \in ModelTypes,
        pu \in BOOLEAN, u \in BoolTexts, pcs \in BOOLEAN, s \in BoolTexts }

\* The config.yaml files: missing, empty, or a mapping of some option keys.
AllYamls ==
    { [kind |-> "missing", map |-> EmptyDict], [kind |-> "empty", map |-> EmptyDict] }
    \cup
    { [kind |-> "mapping",
       map |-> Entry(pcn, "model_channels", c) @@ Entry(pt, "model_type", t)
                @@ Entry(pu, "update_model", u) @@ Entry(pcs, "create_csv", s)] :
        pcn \in BOOLEAN, c \in ChannelSets, pt \in BOOLEAN, t \in ModelTypes,
        pu \in BOOLEAN, u \in BOOLEAN, pcs \in BOOLEAN, s \in BOOLEAN }

NoExc == [raised |-> FALSE, msg |-> "", at |-> ""]
NoPrediction == EmptyDict

\* Everything but the resolver's inputs, as it is when the script starts.
InitRest ==
    /\ args = EmptyDict
    /\ config = Defaults
    /\ response = 0
    /\ requested = <<>>
    /\ log = <<>>
    /\ pos = 0
    /\ curr_set_arr = <<>>
    /\ chan = 0
    /\ cell_data = <<>>
    /\ imread_calls = <<>>
    /\ run_model_calls = <<>>
    /\ embedding = <<>>
    /\ probabilities = <<>>
    /\ prediction = NoPrediction
    /\ df = <<>>
    /\ csv_writes = <<>>
    /\ exc = NoExc

UnchangedWorld ==
    UNCHANGED <<sys_argv, config_yaml, weights_at_start, path_list>>

UnchangedProvisioner == UNCHANGED <<weights, response, requested>>

UnchangedRows ==
    UNCHANGED <<pos, curr_set_arr, chan, cell_data, imread_calls,
                run_model_calls, embedding, probabilities, prediction, df,
                csv_writes>>

\* Lines 31-38: the flags are parsed only when the command line has arguments.
ReadArgs ==
    /\ pc = "args"
    /\ IF DOMAIN sys_argv # {}
       THEN /\ args' = ParseArgs(sys_argv)
            /\ config' = Merge(config, args')
       ELSE UNCHANGED <<args, config>>
    /\ pc' = "yaml"
    /\ UNCHANGED <<sys_argv, config_yaml, weights, weights_at_start, path_list,
                   response, requested, log, exc>>
    /\ UnchangedRows

\* Lines 41-44: open() of a missing file raises outside the try block and ends
\* the process; an empty file loads as None and is skipped.
ReadConfigFile ==
    /\ pc = "yaml"
    /\ IF config_yaml.kind = "missing"
       THEN /\ pc' = "crashed"
            /\ UNCHANGED config
       ELSE /\ pc' = "models"
            /\ config' = IF DOMAIN config_yaml.map # {}
                         THEN Merge(config, config_yaml.map)
                         ELSE config
    /\ UNCHANGED <<sys_argv, config_yaml, args, weights, weights_at_start,
                   path_list, response, requested, log, exc>>
    /\ UnchangedRows

(***************************************************************************)
(* The top-level handler and the logger.  log holds the records of lines   *)
(* 58-148; the records of lines 47-50 and 149 (time stamps, the            *)
(* configuration dump) are not modelled.                                   *)
(***************************************************************************)
Logged(level, msg) == Append(log, [level |-> level, msg |-> msg])

\* Mutant: the exception is swallowed where it was raised and the run goes on
\* with the next manifest line (or straight to the handler outside the loop).
RaiseAndContinue(e) ==
    /\ pc' = IF pc \in {"makedirs", "imread", "run_model"} THEN "loop" ELSE "except"
    /\ exc' = [raised |-> TRUE, msg |-> e, at |-> pc]

\* An exception raised inside the try block (lines 53-144): control goes to
\* the except clause of line 145, e bound to the exception.
Raise(e) ==
    /\ pc' = "except"
    /\ exc' = [raised |-> TRUE, msg |-> e, at |-> pc]

\* Lines 145-146.
Except ==
    /\ pc = "except"
    /\ log' = Logged("ERROR", "- " \o exc.msg)
    /\ pc' = "end"
    /\ UNCHANGED <<args, config, exc>>
    /\ UnchangedWorld /\ UnchangedProvisioner /\ UnchangedRows

\* Line 148.
Finish ==
    /\ pc = "end"
    /\ log' = Logged("INFO", "----------")
    /\ pc' = "done"
    /\ UNCHANGED <<args, config, exc>>
    /\ UnchangedWorld /\ UnchangedProvisioner /\ UnchangedRows

(***************************************************************************)
(* Model provisioner, lines 54-76.  weights are the two files of           *)
(* models/<model_channels>/<model_type>/, each "absent", "old" (there      *)
(* before the run) or "downloaded" (response.content written by this run). *)
(***************************************************************************)
IsFile(w, a) == w[a] # "absent"

\* Mutant: the update flag is tested negated.
NeedDownloadNegated(cfg, w) ==
    ~IsFile(w, "classifier") \/ ~IsFile(w, "encoder") \/ ~Truthy(cfg.update_model)

\* Line 57.
NeedDownload(cfg, w) ==
    ~IsFile(w, "classifier") \/ ~IsFile(w, "encoder") \/ Truthy(cfg.update_model)

\* Mutant: any response is written to the file.
StatusOkAny(status) == status # 0

\* Lines 63 and 71.
StatusOk(status) == status = 200

\* Mutant: the encoder request nested in the classifier's success branch.
AfterSaveNested(a, status) ==
    IF a = "classifier" /\ status = 200 THEN "get_encoder" ELSE "load_model"

\* The statement after the if/else of artifact a (lines 63-68, 71-76): the
\* encoder request follows the classifier's if/else, whatever the status.
AfterSave(a, status) == IF a = "classifier" THEN "get_encoder" ELSE "load_model"

\* The statuses a server may answer with (200, and one that is not).
Statuses == {200, 404}

\* Lines 57-60: the test, and the load of models_urls.yaml (which may raise).
CheckModels ==
    /\ pc = "models"
    /\ IF NeedDownload(config, weights)
       THEN /\ log' = Logged("INFO", "- Downloading models...")
            /\ \/ pc' = "get_classifier" /\ UNCHANGED exc
               \/ Raise("[Errno 2] No such file or directory: 'models_urls.yaml'")
       ELSE /\ pc' = "load_model"
            /\ UNCHANGED <<log, exc>>
    /\ UNCHANGED <<args, config>>
    /\ UnchangedWorld /\ UnchangedProvisioner /\ UnchangedRows

\* Lines 62 and 70: the URL lookup raises KeyError, requests.get raises a
\* transport error, or a response arrives.
Request(a) ==
    /\ pc = "get_" \o a
    /\ \/ Raise("'" \o a \o "'") /\ UNCHANGED <<response, requested>>
       \/ /\ Raise("Connection refused")
          /\ requested' = Append(requested, [artifact |-> a, status |-> 0])
          /\ UNCHANGED response
       \/ \E status \in Statuses :
            /\ response' = status
            /\ requested' = Append(requested, [artifact |-> a, status |-> status])
            /\ pc' = "save_" \o a
            /\ UNCHANGED exc
    /\ UNCHANGED <<args, config, weights, log>>
    /\ UnchangedWorld /\ UnchangedRows

\* Lines 63-68 and 71-76: open(..., 'wb') may raise (no such directory).
Save(a) ==
    /\ pc = "save_" \o a
    /\ IF StatusOk(response)
       THEN \/ /\ weights' = [weights EXCEPT ![a] = "downloaded"]
               /\ log' = Logged("INFO", "  - " \o a \o ".pth updated.")
               /\ pc' = AfterSave(a, response)
               /\ UNCHANGED exc
            \/ /\ Raise("[Errno 2] No such file or directory: '" \o a \o ".pth'")
               /\ UNCHANGED <<weights, log>>
       ELSE /\ log' = Logged("WARNING", "  - " \o a \o ".pth url not found.")
            /\ pc' = AfterSave(a, response)
            /\ UNCHANGED <<weights, exc>>
    /\ UNCHANGED <<args, config, response, requested>>
    /\ UnchangedWorld /\ UnchangedRows

RequestClassifier == Request("classifier")
SaveClassifier == Save("classifier")
RequestEncoder == Request("encoder")
SaveEncoder == Save("encoder")

\* Lines 79-83: model_config.yaml is read and the two weight files are
\* loaded; a missing file raises, and so may a corrupt one.
LoadModel ==
    /\ pc = "load_model"
    /\ \/ /\ IsFile(weights, "classifier") /\ IsFile(weights, "encoder")
          /\ pc' = "open_list"
          /\ UNCHANGED exc
       \/ Raise("[Errno 2] No such file or directory")
    /\ UNCHANGED <<args, config, log>>
    /\ UnchangedWorld /\ UnchangedProvisioner /\ UnchangedRows

(***************************************************************************)
(* Text taken apart by the code: a sequence of tokens.  A token is one     *)
(* character (" ", "\n", "#", ",") or a word holding none of these.        *)
(***************************************************************************)
Whitespace == {" ", "\n"}

RECURSIVE LStrip(_)
LStrip(t) == IF t # <<>> /\ Head(t) \in Whitespace THEN LStrip(Tail(t)) ELSE t

RECURSIVE RStrip(_)
RStrip(t) ==
    IF t # <<>> /\ t[Len(t)] \in Whitespace THEN RStrip(SubSeq(t, 1, Len(t) - 1)) ELSE t

\* str.strip()
Strip(t) == RStrip(LStrip(t))

\* str.startswith("#")
StartsWithHash(t) == t # <<>> /\ Head(t) = "#"

\* The fields of t after those in done, cur being the field under way.
RECURSIVE SplitFrom(_, _, _)
SplitFrom(t, cur, done) ==
    IF t = <<>> THEN Append(done, cur)
    ELSE IF Head(t) = "," THEN SplitFrom(Tail(t), <<>>, Append(done, cur))
    ELSE SplitFrom(Tail(t), Append(cur, Head(t)), done)

\* str.split(","): the fields between the commas, at least one.
Split(t) == SplitFrom(t, <<>>, <<>>)

\* The string a token sequence spells.
RECURSIVE Text(_)
Text(t) == IF t = <<>> THEN "" ELSE Head(t) \o Text(Tail(t))

\* sep.join(strs)
RECURSIVE Join(_, _)
Join(sep, strs) ==
    IF strs = <<>> THEN ""
    ELSE IF Len(strs) = 1 THEN strs[1]
    ELSE strs[1] \o sep \o Join(sep, Tail(strs))

(***************************************************************************)
(* The manifests the model reads (path_list.csv).                          *)
(***************************************************************************)
RowA ==
    <<"rA.png", ",", "yA.png", ",", "bA.png", ",", "gA.png", ",", "outA", ",",
      "cellA", "\n">>
RowB ==
    <<" ", "rB.png", " ", ",", "yB.png", ",", "bB.png", ",", " ", "gB.png", ",",
      " ", "outB", ",", "cellB", " ", "\n">>
BlankLine == <<" ", "\n">>
CommentLine == <<"#", "r", ",", "y", ",", "b", ",", "g", ",", "out", ",", "name", "\n">>
IndentedComment == <<" ", "#", "note", "\n">>

ManifestLines == {RowA, RowB, BlankLine, CommentLine, IndentedComment}

Manifests == UNION { [1..n -> ManifestLines] : n \in 0..MaxRows }

(***************************************************************************)
(* Top-class derivation, lines 121-127.                                    *)
(***************************************************************************)
\* inference.CLASS2NAME, the index -> name table of the inference module.
CLASS2NAME(c) == "class" \o ToString(c)

Classes(p) == 0..(Len(p) - 1)

\* max(curr_probs_l)
MaxOf(p) == CHOOSE v \in {p[i] : i \in 1..Len(p)} : \A i \in 1..Len(p) : p[i] <= v

\* curr_probs_l.index(v): the first index holding v.
IndexOf(p, v) ==
    CHOOSE c \in Classes(p) : p[c + 1] = v /\ \A d \in 0..(c - 1) : p[d + 1] # v

\* sorted(range(len(p)), key=lambda sub: p[sub]): ascending by value, and
\* (the sort is stable) by index among equal values.
SortedRange(p) ==
    LET Before(c, d) == p[c + 1] < p[d + 1] \/ (p[c + 1] = p[d + 1] /\ c < d)
        Rank(c) == 1 + Cardinality({d \in Classes(p) : Before(d, c)})
    IN  [k \in 1..Len(p) |-> CHOOSE c \in Classes(p) : Rank(c) = k]

\* s[-3:]
LastThree(s) == IF Len(s) <= 3 THEN s ELSE SubSeq(s, Len(s) - 2, Len(s))

\* Lines 122-127 and 136.
Derive(p) ==
    LET max_location_class == IndexOf(p, MaxOf(p))
        m == LastThree(SortedRange(p))
    IN  [max_location_class |-> max_location_class,
         max_location_name |-> CLASS2NAME(max_location_class),
         max_3_location_classes |-> m,
         max_3_location_names |->
            CLASS2NAME(m[3]) \o "," \o CLASS2NAME(m[2]) \o "," \o CLASS2NAME(m[1]),
         top_3_classes |-> Join(",", [i \in 1..Len(m) |-> ToString(m[i])])]

(***************************************************************************)
(* The per-row loop, lines 86-144.                                         *)
(***************************************************************************)
\* Line 103.
Retained(line) == Strip(line) # <<>> /\ ~StartsWithHash(line)

\* Mutant: the for loop is left after its first line.
LoopDoneEarly(n, lines) == n >= 1 \/ n = Len(lines)

\* The for loop of line 101 has taken every line of the file.
LoopDone(n, lines) == n = Len(lines)

\* The letters lines 109-115 test, by the field each of them loads.
ChannelOfField == <<"r", "y", "b", "g">>

\* Mutant: the letter is looked up in the default channel-set.
HasChannelDefault(letter, channels) == \E i \in 1..Len(RYBG) : RYBG[i] = letter

\* letter in config["model_channels"]
HasChannel(letter, channels) == \E i \in 1..Len(channels) : channels[i] = letter

\* Mutant: the row is stored at the last existing index.
AppendRowOverwrite(table, row) ==
    IF table = <<>> THEN <<row>> ELSE [table EXCEPT ![Len(table)] = row]

\* df.loc[len(df.index)] = new_row
AppendRow(table, row) == Append(table, row)

\* Field i (0-based, as the code indexes curr_set_arr).
Field(arr, i) == arr[i + 1]

\* os.path.join(curr_set_arr[4], curr_set_arr[5].strip()), both relative.
Stem(arr) == Text(Field(arr, 4)) \o "/" \o Text(Strip(Field(arr, 5)))

\* Lines 131-138.
NewRow(arr, pred, probs, emb) ==
    [id |-> Text(Strip(Field(arr, 5))),
     top_class_name |-> pred.max_location_name,
     top_class |-> pred.max_location_class,
     top_3_classes_names |-> pred.max_3_location_names,
     top_3_classes |-> pred.top_3_classes,
     prob |-> probs,
     feat |-> emb]

\* What inference.run_model returns in the runs of Spec.
RunProbabilities == { <<5, 1, 2, 4, 3>> }
RunEmbedding == <<"features">>

\* Lines 86-100: the empty table, and the test for path_list.csv.
OpenPathList ==
    /\ pc = "open_list"
    /\ df' = <<>>
    /\ pc' = IF path_list.exists THEN "loop" ELSE "end"
    /\ UNCHANGED <<args, config, log, exc, pos, curr_set_arr, chan, cell_data,
                   imread_calls, run_model_calls, embedding, probabilities,
                   prediction, csv_writes>>
    /\ UnchangedWorld /\ UnchangedProvisioner

\* Lines 101-104: the next line of the file; a blank or comment line is
\* skipped, any other is split into its fields.
NextLine ==
    /\ pc = "loop"
    /\ IF LoopDone(pos, path_list.lines)
       THEN /\ pc' = "to_csv"
            /\ UNCHANGED <<pos, curr_set_arr>>
       ELSE /\ pos' = pos + 1
            /\ IF Retained(path_list.lines[pos + 1])
               THEN /\ curr_set_arr' = Split(path_list.lines[pos + 1])
                    /\ pc' = "makedirs"
               ELSE /\ pc' = "loop"
                    /\ UNCHANGED curr_set_arr
    /\ UNCHANGED <<args, config, log, exc, chan, cell_data, imread_calls,
                   run_model_calls, embedding, probabilities, prediction, df,
                   csv_writes>>
    /\ UnchangedWorld /\ UnchangedProvisioner

\* Lines 106-108: curr_set_arr[4] raises IndexError on a line of fewer than
\* five fields; os.makedirs may raise.
MakeDirs ==
    /\ pc = "makedirs"
    /\ IF Len(curr_set_arr) < 5
       THEN /\ Raise("list index out of range")
            /\ UNCHANGED <<chan, cell_data>>
       ELSE \/ /\ pc' = "imread"
               /\ chan' = 0
               /\ cell_data' = <<>>
               /\ UNCHANGED exc
            \/ /\ Raise("[Errno 13] Permission denied: '"
                        \o Text(Strip(Field(curr_set_arr, 4))) \o "'")
               /\ UNCHANGED <<chan, cell_data>>
    /\ UNCHANGED <<args, config, log, pos, curr_set_arr, imread_calls,
                   run_model_calls, embedding, probabilities, prediction, df,
                   csv_writes>>
    /\ UnchangedWorld /\ UnchangedProvisioner

\* One of the four if statements of lines 109-116, in their order: the field
\* is read when its letter is in the channel-set, and imread may raise.
LoadChannel ==
    /\ pc = "imread"
    /\ LET path == Text(Strip(Field(curr_set_arr, chan)))
           call == [line |-> pos, field |-> chan, path |-> path]
       IN  IF HasChannel(ChannelOfField[chan + 1], config.model_channels)
           THEN /\ imread_calls' = Append(imread_calls, call)
                /\ \/ /\ cell_data' = Append(cell_data, <<[image |-> path]>>)
                      /\ chan' = chan + 1
                      /\ pc' = IF chan + 1 = 4 THEN "run_model" ELSE "imread"
                      /\ UNCHANGED exc
                   \/ /\ Raise("No such file: '" \o path \o "'")
                      /\ UNCHANGED <<cell_data, chan>>
           ELSE /\ chan' = chan + 1
                /\ pc' = IF chan + 1 = 4 THEN "run_model" ELSE "imread"
                /\ UNCHANGED <<cell_data, imread_calls, exc>>
    /\ UNCHANGED <<args, config, log, pos, curr_set_arr, run_model_calls,
                   embedding, probabilities, prediction, df, csv_writes>>
    /\ UnchangedWorld /\ UnchangedProvisioner

\* Line 119: curr_set_arr[5] raises IndexError on a line of five fields;
\* inference.run_model returns (embedding, probabilities) or raises.
RunModel ==
    /\ pc = "run_model"
    /\ IF Len(curr_set_arr) < 6
       THEN /\ Raise("list index out of range")
            /\ UNCHANGED <<run_model_calls, embedding, probabilities>>
       ELSE /\ run_model_calls' =
                 Append(run_model_calls,
                        [line |-> pos, cell_data |-> cell_data,
                         stem |-> Stem(curr_set_arr)])
            /\ \/ /\ \E p \in RunProbabilities : probabilities' = p
                  /\ embedding' = RunEmbedding
                  /\ pc' = "save"
                  /\ UNCHANGED exc
               \/ /\ Raise("inference failed")
                  /\ UNCHANGED <<embedding, probabilities>>
    /\ UNCHANGED <<args, config, log, pos, curr_set_arr, chan, cell_data,
                   imread_calls, prediction, df, csv_writes>>
    /\ UnchangedWorld /\ UnchangedProvisioner

\* Lines 121-141: the top classes, the row appended in CSV mode, the log line.
SaveResults ==
    /\ pc = "save"
    /\ prediction' = Derive(probabilities)
    /\ df' = IF Truthy(config.create_csv)
             THEN AppendRow(df, NewRow(curr_set_arr, prediction', probabilities,
                                       embedding))
             ELSE df
    /\ log' = Logged("INFO",
                     "- Saved results for " \o Text(Strip(Field(curr_set_arr, 5)))
                     \o ", locations predicted ["
                     \o prediction'.max_3_location_names \o "]")
    /\ pc' = "loop"
    /\ UNCHANGED <<args, config, exc, pos, curr_set_arr, chan, cell_data,
                   imread_calls, run_model_calls, embedding, probabilities,
                   csv_writes>>
    /\ UnchangedWorld /\ UnchangedProvisioner

\* Lines 143-144, after the loop: the one write of result.csv, which may raise.
ToCsv ==
    /\ pc = "to_csv"
    /\ IF Truthy(config.create_csv)
       THEN \/ /\ csv_writes' = Append(csv_writes, [pos |-> pos, table |-> df])
               /\ pc' = "end"
               /\ UNCHANGED exc
            \/ /\ Raise("[Errno 13] Permission denied: 'result.csv'")
               /\ UNCHANGED csv_writes
       ELSE /\ pc' = "end"
            /\ UNCHANGED <<csv_writes, exc>>
    /\ UNCHANGED <<args, config, log, pos, curr_set_arr, chan, cell_data,
                   imread_calls, run_model_calls, embedding, probabilities,
                   prediction, df>>
    /\ UnchangedWorld /\ UnchangedProvisioner

(***************************************************************************)
(* Specifications.                                                         *)
(***************************************************************************)
WeightStates == [{"classifier", "encoder"} -> {"absent", "old"}]

\* The inputs of the runs of Spec.
RunArgvs == { EmptyDict, "update_model" :> "False" }
RunYamls ==
    { [kind |-> "missing", map |-> EmptyDict], [kind |-> "empty", map |-> EmptyDict] }
    \cup
    { [kind |-> "mapping",
       map |-> Entry(pcn, "model_channels", c) @@ ("create_csv" :> TRUE)] :
        pcn \in BOOLEAN, c \in {<<"r", "b">>, <<"g", "y">>} }
PathLists ==
    { [exists |-> FALSE, lines |-> <<>>] }
    \cup { [exists |-> TRUE, lines |-> m] : m \in Manifests }

\* A whole run: any of the run inputs, any weight files, any manifest.
Init ==
    /\ pc = "args"
    /\ sys_argv \in RunArgvs
    /\ config_yaml \in RunYamls
    /\ weights \in WeightStates
    /\ weights_at_start = weights
    /\ path_list \in PathLists
    /\ InitRest

Next ==
    \/ ReadArgs
    \/ ReadConfigFile
    \/ CheckModels
    \/ RequestClassifier
    \/ SaveClassifier
    \/ RequestEncoder
    \/ SaveEncoder
    \/ LoadModel
    \/ OpenPathList
    \/ NextLine
    \/ MakeDirs
    \/ LoadChannel
    \/ RunModel
    \/ SaveResults
    \/ ToCsv
    \/ Except
    \/ Finish

Spec == Init /\ [][Next]_vars

\* The configuration resolver alone, on every command line and config.yaml.
InitConfig ==
    /\ pc = "args"
    /\ sys_argv \in AllArgvs
    /\ config_yaml \in AllYamls
    /\ weights = [classifier |-> "old", encoder |-> "old"]
    /\ weights_at_start = weights
    /\ path_list = [exists |-> FALSE, lines |-> <<>>]
    /\ InitRest

NextConfig ==
    \/ ReadArgs
    \/ ReadConfigFile

SpecConfig == InitConfig /\ [][NextConfig]_vars

\* Lines 121-141 alone, on every probability vector: the state in which
\* inference.run_model has just returned for the one row of the manifest.
InitRank ==
    /\ pc = "save"
    /\ sys_argv = EmptyDict
    /\ config_yaml = [kind |-> "mapping", map |-> "create_csv" :> TRUE]
    /\ args = EmptyDict
    /\ config = Merge(Defaults, config_yaml.map)
    /\ weights = [classifier |-> "old", encoder |-> "old"]
    /\ weights_at_start = weights
    /\ response = 0
    /\ requested = <<>>
    /\ log = <<>>
    /\ path_list = [exists |-> TRUE, lines |-> <<RowA>>]
    /\ pos = 1
    /\ curr_set_arr = Split(RowA)
    /\ chan = 4
    /\ cell_data = [i \in 1..4 |-> <<[image |-> Text(Strip(Field(Split(RowA), i - 1)))]>>]
    /\ imread_calls =
         [i \in 1..4 |-> [line |-> 1, field |-> i - 1,
                          path |-> Text(Strip(Field(Split(RowA), i - 1)))]]
    /\ run_model_calls =
         <<[line |-> 1, cell_data |-> cell_data, stem |-> Stem(curr_set_arr)]>>
    /\ embedding = RunEmbedding
    /\ probabilities \in [1..NumClasses -> 1..MaxProb]
    /\ prediction = NoPrediction
    /\ df = <<>>
    /\ csv_writes = <<>>
    /\ exc = NoExc

NextRank == SaveResults

SpecRank == InitRank /\ [][NextRank]_vars

(***************************************************************************)
(* Properties.                                                             *)
(***************************************************************************)
RowPcs == {"makedirs", "imread", "run_model", "save"}
ProvisionerPcs ==
    {"models", "get_classifier", "save_classifier", "get_encoder", "save_encoder"}
Resolved == pc \notin {"args", "yaml", "crashed"}

Lines == path_list.lines
IsError(r) == r.level = "ERROR"
ErrorLines == SelectSeq(log, IsError)
RaisedInRow == exc.raised /\ exc.at \in RowPcs

\* Everything the processing of a row reads or writes.
RowState ==
    <<pos, curr_set_arr, chan, cell_data, imread_calls, run_model_calls,
      embedding, probabilities, prediction, df, csv_writes>>

\* C1: once a step of retained row k has raised, no later line is taken from
\* the manifest, no image is read, no inference call is made and no row is
\* appended (the row state never changes again), and the finished run has
\* logged exactly one error line, "- " followed by the exception's message.
C1_RowFailureAbortsRun ==
    /\ [][RaisedInRow => RowState' = RowState]_vars
    /\ [](pc = "done" /\ RaisedInRow =>
            /\ Len(ErrorLines) = 1
            /\ ErrorLines[1].msg = "- " \o exc.msg
            /\ pos <= Len(Lines))

\* C1 witness: the inference call of the first of two retained rows raised,
\* and the run ended with the second row untouched.
C1_Witness ==
    /\ pc = "done"
    /\ exc.raised /\ exc.at = "run_model"
    /\ pos = 1 /\ Len(Lines) = 2 /\ Retained(Lines[2])
    /\ Len(ErrorLines) = 1

\* The number of retained (non-blank, non-comment) lines among the first n.
RetainedCount(n) == Cardinality({i \in 1..n : Retained(Lines[i])})

\* The i-th retained line of the manifest.
NthRetained(i) ==
    Lines[CHOOSE j \in 1..Len(Lines) : Retained(Lines[j]) /\ RetainedCount(j) = i]

\* The loop is inside a retained line, or was when the exception was raised.
RowUnfinished == pc \in RowPcs \/ RaisedInRow

\* C2: in CSV mode the table holds, at every point of the run, one row per
\* retained line processed to the end so far, in manifest order and carrying
\* that line's name; a skipped line (blank, or starting with '#') adds none.
C2_RowsMatchProcessedLines ==
    (Resolved /\ Truthy(config.create_csv)) =>
        /\ Len(df) = RetainedCount(pos) - (IF RowUnfinished THEN 1 ELSE 0)
        /\ \A i \in 1..Len(df) :
              df[i].id = Text(Strip(Field(Split(NthRetained(i)), 5)))

\* C2 witness: a finished run over a comment line followed by a row.
C2_Witness ==
    /\ pc = "done" /\ ~exc.raised
    /\ Truthy(config.create_csv)
    /\ Len(Lines) = 2 /\ StartsWithHash(Lines[1]) /\ Retained(Lines[2])
    /\ Len(df) = 1

\* C3: result.csv is written at most once, only when the loop has taken every
\* line of the manifest, with the whole table; a run that raised an exception
\* has not written it.
C3_CsvWrittenOnceAtEnd ==
    /\ Len(csv_writes) <= 1
    /\ csv_writes # <<>> =>
          /\ csv_writes[1].pos = Len(Lines)
          /\ csv_writes[1].table = df
          /\ pos = Len(Lines)
          /\ pc \in {"end", "done"}
    /\ exc.raised => csv_writes = <<>>

\* C3 witness: the second row failed after the first was appended, and the
\* run ended without result.csv.
C3_Witness ==
    /\ pc = "done"
    /\ RaisedInRow /\ pos = 2
    /\ Len(df) = 1
    /\ csv_writes = <<>>

Responses(a) ==
    {requested[i].status : i \in {j \in 1..Len(requested) : requested[j].artifact = a}}
IsWarningFor(a, r) == r.level = "WARNING" /\ r.msg = "  - " \o a \o ".pth url not found."
WarningsFor(a) == {i \in 1..Len(log) : IsWarningFor(a, log[i])}

\* C4: for each artifact, a weight file differs from what the run found only
\* after a status-200 response for that artifact; once a non-200 response for
\* it has been handled the file is as the run found it and the log holds one
\* warning naming the artifact.
C4_Non200LeavesFile ==
    \A a \in {"classifier", "encoder"} :
        /\ weights[a] # weights_at_start[a] => 200 \in Responses(a)
        /\ (404 \in Responses(a) /\ pc # "save_" \o a) =>
              /\ weights[a] = weights_at_start[a]
              /\ Cardinality(WarningsFor(a)) = 1
        /\ 404 \notin Responses(a) => WarningsFor(a) = {}

\* C4 witness: the classifier answered 404 over an existing file, the encoder
\* answered 200.
C4_Witness ==
    /\ pc = "load_model"
    /\ weights_at_start = [classifier |-> "old", encoder |-> "old"]
    /\ requested = <<[artifact |-> "classifier", status |-> 404],
                     [artifact |-> "encoder", status |-> 200]>>
    /\ weights = [classifier |-> "old", encoder |-> "downloaded"]

\* C5: with update_model resolved to false and both weight files present
\* when the run starts, no request is ever made.
C5_NoRequestWhenPresent ==
    (/\ Resolved
     /\ config.update_model = FALSE
     /\ weights_at_start["classifier"] # "absent"
     /\ weights_at_start["encoder"] # "absent") => requested = <<>>

\* C5 witness: such a run, finished, with a row processed.
C5_Witness ==
    /\ pc = "done"
    /\ config.update_model = FALSE
    /\ weights_at_start = [classifier |-> "old", encoder |-> "old"]
    /\ run_model_calls # <<>>
    /\ requested = <<>>

DownloadDue ==
    \/ weights_at_start["classifier"] = "absent"
    \/ weights_at_start["encoder"] = "absent"
    \/ config.update_model = TRUE
RequestedArtifacts == [i \in 1..Len(requested) |-> requested[i].artifact]
ProvisionerAborted == exc.raised /\ exc.at \in ProvisionerPcs

C7_LayeredMerge ==
    /\ pc = "models" =>
          \A k \in OptionKeys :
              config[k] = IF k \in DOMAIN config_yaml.map THEN config_yaml.map[k]
                          ELSE IF DOMAIN sys_argv # {} THEN args[k]
                          ELSE Defaults[k]
    /\ pc # "args" => ((DOMAIN args # {}) <=> (DOMAIN sys_argv # {}))
    /\ (pc \notin {"args", "yaml"} /\ config_yaml.kind = "empty") =>
          /\ pc = "models"
          /\ \A k \in OptionKeys :
                config[k] = IF DOMAIN sys_argv # {} THEN args[k] ELSE Defaults[k]
    /\ pc = "models" => config["log"] = Defaults["log"]

\* C7 witness: model_channels set in all three sources (the file wins),
\* update_model only on the command line (the command line wins).
C7_Witness ==
    /\ pc = "models"
    /\ "model_channels" \in DOMAIN sys_argv /\ sys_argv["model_channels"] = <<"r", "b">>
    /\ "model_channels" \in DOMAIN config_yaml.map
    /\ config_yaml.map["model_channels"] = <<"g", "y">>
    /\ config["model_channels"] = <<"g", "y">>
    /\ "update_model" \in DOMAIN sys_argv /\ "update_model" \notin DOMAIN config_yaml.map
    /\ config["update_model"] = TRUE

Letters == {config.model_channels[i] : i \in 1..Len(config.model_channels)}

\* The fields 0..3 whose letter is in the channel-set, in field order.
RECURSIVE SelectedFrom(_)
SelectedFrom(f) ==
    IF f > 3 THEN <<>>
    ELSE (IF ChannelOfField[f + 1] \in Letters THEN <<f>> ELSE <<>>)
         \o SelectedFrom(f + 1)

\* C8: no field is read whose letter is not in the channel-set; for every
\* row handed to inference the fields read are exactly those whose letter is
\* in the channel-set, and the images are passed in the order r, y, b, g.
C8_ChannelSelection ==
    Resolved =>
        LET sel == SelectedFrom(0)
            PathOf(fields, f) == Text(Strip(Field(fields, f)))
        IN  \A n \in 1..pos :
                LET fields == Split(Lines[n])
                    reads == {i \in 1..Len(imread_calls) : imread_calls[i].line = n}
                    runs == {j \in 1..Len(run_model_calls) :
                                run_model_calls[j].line = n}
                IN  /\ \A i \in reads :
                          /\ ChannelOfField[imread_calls[i].field + 1] \in Letters
                          /\ imread_calls[i].path = PathOf(fields, imread_calls[i].field)
                    /\ \A j \in runs :
                          /\ Cardinality(reads) = Len(sel)
                          /\ \A i \in reads :
                                \A k \in reads :
                                    i < k => imread_calls[i].field < imread_calls[k].field
                          /\ run_model_calls[j].cell_data =
                                [i \in 1..Len(sel) |->
                                    <<[image |-> PathOf(fields, sel[i])]>>]

\* C8 witness: channel-set "gy" on a line with four paths: the y and g
\* images are passed, in that order.
C8_Witness ==
    /\ Resolved
    /\ config.model_channels = <<"g", "y">>
    /\ run_model_calls # <<>>
    /\ Lines[run_model_calls[1].line] = RowB
    /\ run_model_calls[1].cell_data = <<<<[image |-> "yB.png"]>>, <<[image |-> "gB.png"]>>>>

\* The row SaveResults has just appended.
RowSaved == pc = "loop" /\ df # <<>>
LastRow == df[Len(df)]

\* C9 as stated: top_3_classes lists the three highest-valued classes in
\* descending probability order, the order of top_3_classes_names; for
\* [0.5, 0.1, 0.2, 0.4, 0.3] it is 0,3,4.
C9_Top3IndexesDescending ==
    RowSaved =>
        LET p == LastRow.prob
        IN  /\ \E c1, c2, c3 \in Classes(p) :
                  /\ LastRow.top_3_classes_names =
                        CLASS2NAME(c1) \o "," \o CLASS2NAME(c2) \o "," \o CLASS2NAME(c3)
                  /\ LastRow.top_3_classes =
                        ToString(c1) \o "," \o ToString(c2) \o "," \o ToString(c3)
                  /\ p[c1 + 1] >= p[c2 + 1] /\ p[c2 + 1] >= p[c3 + 1]
            /\ p = <<5, 1, 2, 4, 3>> => LastRow.top_3_classes = "0,3,4"

\* C10 as stated: the top-1 class of a row is the first entry of its top-3
\* names, also when the maximum occurs at more than one index.
C10_Top1IsFirstOfTop3 ==
    RowSaved =>
        \E c2, c3 \in Classes(LastRow.prob) :
            LastRow.top_3_classes_names =
                LastRow.top_class_name \o "," \o CLASS2NAME(c2) \o "," \o CLASS2NAME(c3)

====
